---- MODULE Spec2Model ----
(***************************************************************************)
(* A model of the GBA platform core of src/src/gba/gba.c: the ROM / BIOS   *)
(* lifecycle (load, unload, patch, yank, reset, destroy), the interrupt    *)
(* controller primitives, the event-processing step GBAProcessEvents and   *)
(* the breakpoint patcher.                                                 *)
(*                                                                         *)
(* Every C function is an operator from a state record to a state record,  *)
(* named as in the source; an action applies one operator to the current   *)
(* state.  The build modelled is the default one (no _3DS, no NDEBUG).     *)
(***************************************************************************)
EXTENDS Integers, Sequences, FiniteSets, TLC

VARIABLES
    \* struct GBAMemory / struct GBA, ROM and BIOS part
    rom, pristineRom, pristineRomSize, romSize, romMask, yankedRomSize,
    romVf, biosVf, bios, fullBios, biosChecksum,
    \* interrupt registers of memory.io, and the CPU fields gba.c touches
    REG_IE, REG_IF, REG_IME, springIRQ, halted, cpsrI, cpuBlocked, cycles, nextEvent,
    \* the timing timeline (struct mTiming), a list sorted by due time
    timeline,
    \* position and locals of a running GBAProcessEvents
    pc, lCycles, lNextEvent,
    \* what the outside world has seen: buffers and file handles
    nextFile, nextAnon, produced, relCount, wrongRel, closeCount, destroyed,
    \* patchable memory as halfwords, the CPU's component table, and the
    \* breakpoints the debugger and the cheat device hold
    mem, components, breakpoints, cleared,
    \* halt request of the I/O bank, idle-loop classification and detection
    haltPending, idleLoop, idleDetectionStep, idleDetectionFailures,
    \* the image last probed by the signature checks, with their answers
    probe,
    \* observation of the last operation
    lastOp, prevOp, opArg, irqCalls, ret, pre, yankPre, preIrq, elapsed, firstTick, extraTicks, sawBlocked, fastForwarded,
    preBios, firstYank, preReset

vars == << rom, pristineRom, pristineRomSize, romSize, romMask, yankedRomSize,
           romVf, biosVf, bios, fullBios, biosChecksum,
           REG_IE, REG_IF, REG_IME, springIRQ, halted, cpsrI, cpuBlocked, cycles, nextEvent,
           timeline, pc, lCycles, lNextEvent,
           nextFile, nextAnon, produced, relCount, wrongRel, closeCount, destroyed,
           mem, components, breakpoints, cleared,
           haltPending, idleLoop, idleDetectionStep, idleDetectionFailures,
           probe,
           lastOp, prevOp, opArg, irqCalls, ret, pre, yankPre, preIrq, elapsed, firstTick, extraTicks, sawBlocked, fastForwarded,
           preBios, firstYank, preReset >>

----------------------------------------------------------------------------
\* Bounds of the model

\* source handles (struct VFile) the caller can hand to the platform
MaxFiles == 2
\* anonymous buffers GBAApplyPatch can allocate in one run
MaxPatches == 2

----------------------------------------------------------------------------
\* Program constants

\* gba/memory.h: capacity of the cartridge space, 32 MiB
SIZE_CART0 == 33554432
\* gba/memory.h: capacity of the working RAM, 256 KiB
SIZE_WORKING_RAM == 262144
\* limits.h
INT_MAX == 2147483647

NULL == 0

\* What a step is seen to do to the timeline: the cycles of its first tick
\* (NoTick before it), and the cycles of its later ticks, counted up to
\* MaxExtra.  The timeline has advanced by firstTick + extraTicks.
NoTick == 0 - 1
MaxExtra == 3
Sat(a, b) == IF a >= MaxExtra - b \/ b >= MaxExtra THEN MaxExtra ELSE a + b

\* Buffers are numbered: the mapping of source handle f is f, the k-th
\* anonymous buffer is MaxFiles + k, the built-in HLE BIOS comes last.
Files == 1..MaxFiles
AnonBuf(k) == MaxFiles + k
AnonBufs == {AnonBuf(k) : k \in 1..MaxPatches}
HleBios == MaxFiles + MaxPatches + 1
Buffers == Files \cup AnonBufs \cup {HleBios}

\* sizes a ROM or multiboot source can report
FileSizes == {0, 3, SIZE_CART0 + 1}
\* sizes a patch can announce as its output size
PatchSizes == {0, 5, SIZE_CART0, SIZE_CART0 + 1}

\* interrupt sources (enum GBAIRQ); a register is the set of its set bits
IRQ_TIMER0 == "TIMER0"
IRQ_GAMEPAK == "GAMEPAK"
IRQs == {IRQ_TIMER0, IRQ_GAMEPAK}

----------------------------------------------------------------------------
\* The state as one record, so that the C functions compose

S == [ rom |-> rom, pristineRom |-> pristineRom, pristineRomSize |-> pristineRomSize,
       romSize |-> romSize, romMask |-> romMask, yankedRomSize |-> yankedRomSize,
       romVf |-> romVf, biosVf |-> biosVf, bios |-> bios, fullBios |-> fullBios,
       biosChecksum |-> biosChecksum,
       REG_IE |-> REG_IE, REG_IF |-> REG_IF, REG_IME |-> REG_IME, springIRQ |-> springIRQ, halted |-> halted,
       cpsrI |-> cpsrI, cpuBlocked |-> cpuBlocked, cycles |-> cycles,
       nextEvent |-> nextEvent, timeline |-> timeline,
       nextFile |-> nextFile, nextAnon |-> nextAnon, produced |-> produced,
       relCount |-> relCount, wrongRel |-> wrongRel, closeCount |-> closeCount,
       destroyed |-> destroyed,
       haltPending |-> haltPending, idleLoop |-> idleLoop,
       idleDetectionStep |-> idleDetectionStep,
       idleDetectionFailures |-> idleDetectionFailures,
       \* per operation: ARMRaiseIRQ calls made, and the result reported
       irqCalls |-> 0, ret |-> TRUE ]

Becomes(n) ==
    /\ rom' = n.rom /\ pristineRom' = n.pristineRom
    /\ pristineRomSize' = n.pristineRomSize
    /\ romSize' = n.romSize /\ romMask' = n.romMask
    /\ yankedRomSize' = n.yankedRomSize
    /\ romVf' = n.romVf /\ biosVf' = n.biosVf /\ bios' = n.bios
    /\ fullBios' = n.fullBios /\ biosChecksum' = n.biosChecksum
    /\ REG_IE' = n.REG_IE /\ REG_IF' = n.REG_IF /\ REG_IME' = n.REG_IME /\ springIRQ' = n.springIRQ
    /\ halted' = n.halted /\ cpsrI' = n.cpsrI /\ cpuBlocked' = n.cpuBlocked
    /\ cycles' = n.cycles /\ nextEvent' = n.nextEvent /\ timeline' = n.timeline
    /\ nextFile' = n.nextFile /\ nextAnon' = n.nextAnon /\ produced' = n.produced
    /\ relCount' = n.relCount /\ wrongRel' = n.wrongRel
    /\ closeCount' = n.closeCount /\ destroyed' = n.destroyed
    /\ haltPending' = n.haltPending /\ idleLoop' = n.idleLoop
    /\ idleDetectionStep' = n.idleDetectionStep
    /\ idleDetectionFailures' = n.idleDetectionFailures
    /\ irqCalls' = n.irqCalls /\ ret' = n.ret

\* the active ROM pointer, size and mask
RomFields(g) == [rom |-> g.rom, romSize |-> g.romSize, romMask |-> g.romMask]
\* nothing observed
NoFields == [rom |-> NULL, romSize |-> 0, romMask |-> 0]
\* the interrupt registers and the halt flag
IrqFields(g) == [REG_IE |-> g.REG_IE, REG_IF |-> g.REG_IF, REG_IME |-> g.REG_IME,
                 halted |-> g.halted]
NoIrq == [REG_IE |-> {}, REG_IF |-> {}, REG_IME |-> 0, halted |-> FALSE]
\* the loaded BIOS: its buffer, checksum, full-BIOS flag and backing source
BiosFields(g) == [bios |-> g.bios, biosChecksum |-> g.biosChecksum,
                  fullBios |-> g.fullBios, biosVf |-> g.biosVf]
NoBios == [bios |-> NULL, biosChecksum |-> 0, fullBios |-> 0, biosVf |-> NULL]
\* what a reset found: events pending, a halt request, an interrupt
\* register set, an idle-detection counter running
ResetFields(g) == [pending |-> g.timeline # << >>, haltPending |-> g.haltPending,
                   registers |-> (g.REG_IE # {} \/ g.REG_IF # {} \/ g.REG_IME # 0),
                   idle |-> (g.idleDetectionStep # 0 \/ g.idleDetectionFailures # 0)]
NoReset == [pending |-> FALSE, haltPending |-> FALSE, registers |-> FALSE,
            idle |-> FALSE]
\* no yank observed
NoYank == [romSize |-> 0, repeated |-> FALSE]
\* enum GBAIdleLoopOptimization / idleLoop: no idle loop known
IDLE_LOOP_NONE == "none"
\* the image of an empty source, and what the signature checks say of it
NoProbe == [image |-> << >>, isROM |-> FALSE, isBIOS |-> FALSE]
SigVars == << probe >>

----------------------------------------------------------------------------
\* Collaborators outside gba.c

RECURSIVE Pow2AtLeast(_, _)
Pow2AtLeast(p, n) == IF p >= n THEN p ELSE Pow2AtLeast(2 * p, n)

\* util/math.h toPow2: the next power of two of a size; the mask derived
\* from it is 0 for size 0
toPow2(n) == Pow2AtLeast(1, n)

\* ARMRaiseIRQ: the CPU core's interrupt-raise primitive; the model counts the
\* calls an operation makes
ARMRaiseIRQ(g) == [g EXCEPT !.irqCalls = @ + 1]

\* vf->unmap(vf, buffer, size): releases a mapping through a source handle
VfUnmap(g, vf, buffer) ==
    IF buffer = NULL THEN g
    ELSE [g EXCEPT !.relCount[buffer] = IF @ < 2 THEN @ + 1 ELSE @,
                   !.wrongRel = IF buffer = vf THEN @ ELSE @ \cup {buffer}]

\* vf->close(vf)
VfClose(g, vf) == [g EXCEPT !.closeCount[vf] = IF @ < 2 THEN @ + 1 ELSE @]

\* mappedMemoryFree(buffer, size): releases an anonymous buffer
mappedMemoryFree(g, buffer) ==
    [g EXCEPT !.relCount[buffer] = IF @ < 2 THEN @ + 1 ELSE @,
              !.wrongRel = IF buffer \in AnonBufs THEN @ ELSE @ \cup {buffer}]

\* anonymousMemoryMap(SIZE_CART0): a fresh anonymous buffer
anonymousMemoryMap(g) ==
    [g EXCEPT !.nextAnon = @ + 1, !.produced = @ \cup {AnonBuf(g.nextAnon + 1)}]

\* vf->map(vf, size, MAP_READ): the mapping of the source, or NULL
VfMap(g, vf, ok) == IF ok THEN [g EXCEPT !.produced = @ \cup {vf}] ELSE g

----------------------------------------------------------------------------
\* Interrupt controller

\* variant: the CPU is taken out of halt only when the master enable is set
GBARaiseIRQ_unhaltsOnlyEnabled(g, irq) ==
    LET g1 == [g EXCEPT !.REG_IF = @ \cup {irq}]
    IN  IF irq \in g1.REG_IE /\ g1.REG_IME # 0
        THEN ARMRaiseIRQ([g1 EXCEPT !.halted = FALSE])
        ELSE g1

GBARaiseIRQ(g, irq) ==
    LET g1 == [g EXCEPT !.REG_IF = @ \cup {irq}]
    IN  IF irq \in g1.REG_IE
        THEN LET g2 == [g1 EXCEPT !.halted = FALSE]
             IN  IF g2.REG_IME # 0 THEN ARMRaiseIRQ(g2) ELSE g2
        ELSE g1


----------------------------------------------------------------------------
\* Interrupt controller, continued

\* variant: the test reads the mask already in the register, not the one
\* being written
GBAWriteIE_oldMask(g, value) ==
    IF g.REG_IME # 0 /\ (g.REG_IE \cap g.REG_IF) # {} THEN ARMRaiseIRQ(g) ELSE g

GBAWriteIE(g, value) ==
    IF g.REG_IME # 0 /\ (value \cap g.REG_IF) # {} THEN ARMRaiseIRQ(g) ELSE g

GBAWriteIME(g, value) ==
    IF value # 0 /\ (g.REG_IE \cap g.REG_IF) # {} THEN ARMRaiseIRQ(g) ELSE g

GBATestIRQ(g) ==
    IF g.REG_IME # 0 /\ (g.REG_IE \cap g.REG_IF) # {}
    THEN [g EXCEPT !.springIRQ = g.REG_IE \cap g.REG_IF, !.nextEvent = g.cycles]
    ELSE g

GBAHalt(g) == [g EXCEPT !.nextEvent = g.cycles, !.halted = TRUE]

\* GBAIOWrite of REG_IE: the handler, then the register takes the value
GBAIOWrite_IE(g, value) == [GBAWriteIE(g, value) EXCEPT !.REG_IE = value]

\* GBAIOWrite of REG_IME: the handler, then the register takes the value
GBAIOWrite_IME(g, value) == [GBAWriteIME(g, value) EXCEPT !.REG_IME = value]

----------------------------------------------------------------------------
\* The timeline (struct mTiming): events sorted by due time, an event due at
\* the same time as another after it.  An event is [kind, when, left]: when is
\* the distance from the timeline's clock, left the transfer units a DMA
\* still has to do.

\* cycles between two units of a DMA transfer
DmaUnitCycles == 2

Min(a, b) == IF a < b THEN a ELSE b

RECURSIVE InsertEvent(_, _)
InsertEvent(tl, ev) ==
    IF tl = << >> THEN << ev >>
    ELSE IF Head(tl).when > ev.when THEN << ev >> \o tl
    ELSE << Head(tl) >> \o InsertEvent(Tail(tl), ev)

\* mTimingSchedule(timing, event, when): when counts from the CPU's position
mTimingSchedule(g, kind, left, when) ==
    [g EXCEPT !.nextEvent = Min(@, when + g.cycles),
              !.timeline = InsertEvent(@, [kind |-> kind, left |-> left,
                                           when |-> when + g.cycles])]

\* the callback of a due event: a timer overflow raises its interrupt; a DMA
\* with units left blocks the CPU and comes back for the next unit, a DMA
\* with none left releases the CPU
EventCallback(g, ev) ==
    IF ev.kind = "timer" THEN GBARaiseIRQ(g, IRQ_TIMER0)
    ELSE IF ev.left > 0
         THEN mTimingSchedule([g EXCEPT !.cpuBlocked = TRUE], "dma", ev.left - 1,
                              DmaUnitCycles)
         ELSE [g EXCEPT !.cpuBlocked = FALSE]

RECURSIVE FireDue(_)
FireDue(g) ==
    IF g.timeline # << >> /\ Head(g.timeline).when <= 0
    THEN FireDue(EventCallback([g EXCEPT !.timeline = Tail(@)], Head(g.timeline)))
    ELSE g

\* mTimingTick(timing, cycles): the clock advances, the due events fire in
\* order, and the next-event cursor is the distance to the first pending event
mTimingTick(g, n) ==
    LET g1 == [g EXCEPT !.timeline = [i \in DOMAIN @ |->
                            [@[i] EXCEPT !.when = @ - n]]]
        g2 == FireDue(g1)
    IN  IF g2.timeline = << >> THEN g2
        ELSE [g2 EXCEPT !.nextEvent = Head(g2.timeline).when]

----------------------------------------------------------------------------
\* ROM and BIOS lifecycle

GBAUnloadROM(g) ==
    LET g1 == IF g.rom # NULL /\ g.pristineRom # g.rom
              THEN mappedMemoryFree([g EXCEPT !.yankedRomSize = 0], g.rom)
              ELSE g
        g2 == [g1 EXCEPT !.rom = NULL]
        g3 == IF g2.romVf # NULL
              THEN [VfClose(VfUnmap(g2, g2.romVf, g2.pristineRom), g2.romVf)
                        EXCEPT !.romVf = NULL]
              ELSE g2
    IN  [g3 EXCEPT !.pristineRom = NULL, !.idleLoop = IDLE_LOOP_NONE]

GBADestroy(g) ==
    LET g1 == GBAUnloadROM(g)
        g2 == IF g1.biosVf # NULL
              THEN [VfClose(VfUnmap(g1, g1.biosVf, g1.bios), g1.biosVf)
                        EXCEPT !.biosVf = NULL]
              ELSE g1
    IN  [g2 EXCEPT !.destroyed = TRUE]

\* vf is a fresh source handle, size what vf->size reports, ok whether
\* vf->map succeeds
GBALoadMB(g, vf, size, ok) ==
    LET g1 == [GBAUnloadROM(g) EXCEPT !.romVf = vf, !.nextFile = vf]
        sz == IF size > SIZE_WORKING_RAM THEN SIZE_WORKING_RAM ELSE size
        g2 == [VfMap(g1, vf, ok) EXCEPT !.pristineRomSize = sz,
                                        !.pristineRom = IF ok THEN vf ELSE NULL]
    IN  IF g2.pristineRom = NULL
        THEN [g2 EXCEPT !.ret = FALSE]
        ELSE [g2 EXCEPT !.yankedRomSize = 0, !.romSize = 0, !.romMask = 0,
                        !.ret = TRUE]

\* vf = NULL is the absent source
GBALoadROM(g, vf, size, ok) ==
    IF vf = NULL THEN [g EXCEPT !.ret = FALSE]
    ELSE
    LET g1 == [GBAUnloadROM(g) EXCEPT !.romVf = vf, !.nextFile = vf]
        sz == IF size > SIZE_CART0 THEN SIZE_CART0 ELSE size
        g2 == [VfMap(g1, vf, ok) EXCEPT !.pristineRomSize = sz,
                                        !.pristineRom = IF ok THEN vf ELSE NULL]
    IN  IF g2.pristineRom = NULL
        THEN [g2 EXCEPT !.ret = FALSE]
        ELSE [g2 EXCEPT !.ret = TRUE,
                        !.yankedRomSize = 0,
                        !.rom = g2.pristineRom,
                        !.romSize = g2.pristineRomSize,
                        !.romMask = toPow2(g2.pristineRomSize) - 1]

\* variant: the size is saved after it has been zeroed
GBAYankROM_savesZeroed(g) ==
    GBARaiseIRQ([g EXCEPT !.yankedRomSize = 0, !.romSize = 0, !.romMask = 0],
                IRQ_GAMEPAK)

GBAYankROM(g) ==
    GBARaiseIRQ([g EXCEPT !.yankedRomSize = g.romSize, !.romSize = 0, !.romMask = 0],
                IRQ_GAMEPAK)

\* ret records whether the BIOS was mapped (the function is void)
GBALoadBIOS(g, vf, ok) ==
    LET g1 == [VfMap(g, vf, ok) EXCEPT !.biosVf = vf, !.nextFile = vf]
    IN  IF ~ok THEN [g1 EXCEPT !.ret = FALSE]
        ELSE [g1 EXCEPT !.bios = vf, !.fullBios = 1, !.biosChecksum = vf,
                        !.ret = TRUE]

\* variant: the mask of a patched ROM is derived from the patched size
GBAApplyPatch_derivedMask(g, patchedSize, ok) ==
    IF patchedSize = 0 \/ patchedSize > SIZE_CART0 THEN [g EXCEPT !.ret = FALSE]
    ELSE
    LET g1 == [anonymousMemoryMap(g) EXCEPT !.rom = AnonBuf(g.nextAnon + 1)]
    IN  IF ~ok
        THEN [mappedMemoryFree(g1, g1.rom) EXCEPT !.rom = g1.pristineRom,
                                                  !.ret = FALSE]
        ELSE [g1 EXCEPT !.romSize = patchedSize,
                        !.romMask = toPow2(patchedSize) - 1,
                        !.ret = TRUE]

\* patchedSize is what patch->outputSize returns, ok what patch->applyPatch
\* returns; ret records whether the patch was applied (the function is void)
GBAApplyPatch(g, patchedSize, ok) ==
    IF patchedSize = 0 \/ patchedSize > SIZE_CART0 THEN [g EXCEPT !.ret = FALSE]
    ELSE
    LET g1 == [anonymousMemoryMap(g) EXCEPT !.rom = AnonBuf(g.nextAnon + 1)]
    IN  IF ~ok
        THEN [mappedMemoryFree(g1, g1.rom) EXCEPT !.rom = g1.pristineRom,
                                                  !.ret = FALSE]
        ELSE [g1 EXCEPT !.romSize = patchedSize, !.romMask = SIZE_CART0 - 1,
                        !.ret = TRUE]

\* mTimingClear: drops every pending event
mTimingClear(g) == [g EXCEPT !.timeline = << >>]

\* GBAIOInit: the I/O register bank back to its reset values
GBAIOInit(g) == [g EXCEPT !.REG_IE = {}, !.REG_IF = {}, !.REG_IME = 0]

\* variant: the halt request survives the reset
GBAReset_keepsHaltPending(g) ==
    LET g1 == [g EXCEPT !.cpuBlocked = FALSE]
        g2 == IF g1.yankedRomSize # 0
              THEN [g1 EXCEPT !.romSize = g1.yankedRomSize,
                              !.romMask = toPow2(g1.yankedRomSize) - 1,
                              !.yankedRomSize = 0]
              ELSE g1
    IN  [GBAIOInit(mTimingClear(g2)) EXCEPT !.idleDetectionStep = 0,
                                            !.idleDetectionFailures = 0]

GBAReset(g) ==
    LET g1 == [g EXCEPT !.cpuBlocked = FALSE]
        g2 == IF g1.yankedRomSize # 0
              THEN [g1 EXCEPT !.romSize = g1.yankedRomSize,
                              !.romMask = toPow2(g1.yankedRomSize) - 1,
                              !.yankedRomSize = 0]
              ELSE g1
    IN  [GBAIOInit(mTimingClear(g2)) EXCEPT !.haltPending = FALSE,
                                            !.idleDetectionStep = 0,
                                            !.idleDetectionFailures = 0]

----------------------------------------------------------------------------
\* Breakpoint patcher.  A 32-bit value is the pair [hi, lo] of its halfwords;
\* memory is little-endian, the halfword at index i sits at byte address 2i.

\* halfwords of patchable memory in the model
MemHalfwords == 2
\* breakpoints held at a time
MaxBreakpoints == 2

HalfIndex == 0..(MemHalfwords - 1)
\* values a halfword of program memory takes in the model: zero, and a
\* value with the sign bit set
HalfValues == {0, 32769}

\* enum mCPUComponentType
CPU_COMPONENT_DEBUGGER == 0
CPU_COMPONENT_CHEAT_DEVICE == 1
CPU_COMPONENT_MAX == 2
NoComponent == "none"

\* the base of the ARM trap opcode 0xE1200070, as halfwords
ARM_BKPT_HI == 57632
ARM_BKPT_LO == 112
\* the base of the Thumb trap opcode 0xBE00
THUMB_BKPT == 48640

BpVars == << mem, components, breakpoints, cleared >>
NoBreakpoint == [address |-> 0, mode |-> "none", opcode |-> [hi |-> 0, lo |-> 0],
                 before |-> [hi |-> 0, lo |-> 0]]

\* the bytes of width mode at byte address a, as a 32-bit value
Load(m, a, mode) ==
    IF mode = "ARM" THEN [hi |-> m[(a \div 2) + 1], lo |-> m[a \div 2]]
    ELSE [hi |-> 0, lo |-> m[a \div 2]]

\* GBAPatch32(cpu, address, value, &old): stores the word, returns the old one
GBAPatch32(m, a, value) ==
    [mem |-> [m EXCEPT ![a \div 2] = value.lo, ![(a \div 2) + 1] = value.hi],
     old |-> [hi |-> m[(a \div 2) + 1], lo |-> m[a \div 2]]]

\* GBAPatch16(cpu, address, value, &old): stores the halfword, returns the old
\* one as an int16_t
GBAPatch16(m, a, value) ==
    [mem |-> [m EXCEPT ![a \div 2] = value],
     old |-> IF m[a \div 2] >= 32768 THEN m[a \div 2] - 65536 ELSE m[a \div 2]]

\* conversions of C: to uint16_t, and a 16-bit value widened to uint32_t
ToUint16(x) == x % 65536
Uint32OfUint16(x) == [hi |-> 0, lo |-> x]
\* a uint32_t passed where an int16_t is expected keeps its low halfword
LowHalf(v) == v.lo

\* the slot of a component in cpu->components, numComponents if it has none
RECURSIVE FindComponent(_, _, _)
FindComponent(table, component, immediate) ==
    IF immediate = CPU_COMPONENT_MAX THEN immediate
    ELSE IF table[immediate] = component THEN immediate
    ELSE FindComponent(table, component, immediate + 1)

\* the memory after the call and the opcode handed back; found is FALSE when
\* the component is not registered: memory is untouched and nothing is
\* handed back
GBASetBreakpoint(m, table, component, address, mode) ==
    LET immediate == FindComponent(table, component, 0)
    IN  IF immediate = CPU_COMPONENT_MAX
        THEN [mem |-> m, found |-> FALSE, opcode |-> [hi |-> 0, lo |-> 0]]
        ELSE IF mode = "ARM"
        THEN LET value == [hi |-> ARM_BKPT_HI + ((immediate \div 4096) % 16),
                           lo |-> ARM_BKPT_LO + (immediate % 16)
                                    + ((immediate \div 16) % 256) * 256]
                 r == GBAPatch32(m, address, value)
             IN  [mem |-> r.mem, found |-> TRUE, opcode |-> r.old]
        ELSE LET value == THUMB_BKPT + (immediate % 256)
                 r == GBAPatch16(m, address, value)
             IN  [mem |-> r.mem, found |-> TRUE,
                  opcode |-> Uint32OfUint16(ToUint16(r.old))]

\* variant: the opcode is written back as a halfword in either mode
GBAClearBreakpoint_halfword(m, address, mode, opcode) ==
    GBAPatch16(m, address, LowHalf(opcode)).mem

GBAClearBreakpoint(m, address, mode, opcode) ==
    IF mode = "ARM" THEN GBAPatch32(m, address, opcode).mem
    ELSE GBAPatch16(m, address, LowHalf(opcode)).mem

\* byte addresses valid for a width
Addresses(mode) ==
    IF mode = "ARM" THEN {2 * i : i \in {j \in HalfIndex : j % 2 = 0 /\ j + 1 \in HalfIndex}}
    ELSE {2 * i : i \in HalfIndex}

MainVars == << rom, pristineRom, pristineRomSize, romSize, romMask, yankedRomSize,
               romVf, biosVf, bios, fullBios, biosChecksum,
               REG_IE, REG_IF, REG_IME, springIRQ, halted, cpsrI, cpuBlocked,
               cycles, nextEvent, timeline, pc, lCycles, lNextEvent,
               nextFile, nextAnon, produced, relCount, wrongRel, closeCount,
               destroyed, irqCalls, ret, pre, yankPre, preIrq, opArg, prevOp,
               elapsed, firstTick, extraTicks, sawBlocked, fastForwarded,
               haltPending, idleLoop, idleDetectionStep, idleDetectionFailures,
               preBios, firstYank, preReset >>

BpOp(name) == pc = "cpu" /\ ~destroyed /\ lastOp' = [op |-> name, ok |-> TRUE]
                /\ UNCHANGED << MainVars, SigVars >>

\* the program stores a halfword
StoreHalf ==
    \E i \in HalfIndex, v \in HalfValues :
        /\ mem[i] # v /\ breakpoints = {}
        /\ mem' = [mem EXCEPT ![i] = v]
        /\ UNCHANGED << components, breakpoints >> /\ cleared' = NoBreakpoint
        /\ BpOp("Store")

\* GBAAttachDebugger
AttachDebugger ==
    /\ components[CPU_COMPONENT_DEBUGGER] = NoComponent
    /\ components' = [components EXCEPT ![CPU_COMPONENT_DEBUGGER] = "debugger"]
    /\ UNCHANGED << mem, breakpoints >> /\ cleared' = NoBreakpoint
    /\ BpOp("AttachDebugger")

\* GBADetachDebugger
DetachDebugger ==
    /\ components[CPU_COMPONENT_DEBUGGER] # NoComponent
    /\ components' = [components EXCEPT ![CPU_COMPONENT_DEBUGGER] = NoComponent]
    /\ UNCHANGED << mem, breakpoints >> /\ cleared' = NoBreakpoint
    /\ BpOp("DetachDebugger")

\* a component sets a breakpoint and keeps what it was handed back, together
\* with what the memory held
SetBreakpoint ==
    \E component \in {"debugger", "cheats"}, mode \in {"ARM", "THUMB"} :
      \E address \in Addresses(mode) :
        LET r == GBASetBreakpoint(mem, components, component, address, mode)
        IN  /\ Cardinality(breakpoints) < MaxBreakpoints
            /\ mem' = r.mem
            /\ breakpoints' = IF r.found
                              THEN breakpoints \cup
                                     {[address |-> address, mode |-> mode,
                                       opcode |-> r.opcode,
                                       before |-> Load(mem, address, mode)]}
                              ELSE breakpoints
            /\ UNCHANGED components /\ cleared' = NoBreakpoint
            /\ BpOp("SetBreakpoint")

\* a component clears a breakpoint it holds, with the opcode it kept
ClearBreakpoint ==
    \E b \in breakpoints :
        /\ mem' = GBAClearBreakpoint(mem, b.address, b.mode, b.opcode)
        /\ breakpoints' = breakpoints \ {b}
        /\ cleared' = b
        /\ UNCHANGED components
        /\ BpOp("ClearBreakpoint")

NextBp ==
    \/ StoreHalf \/ AttachDebugger \/ DetachDebugger
    \/ SetBreakpoint \/ ClearBreakpoint

----------------------------------------------------------------------------
\* Signature checks.  The source is the sequence of its bytes; offsets count
\* from 0.

\* static const GBA_ROM_MAGIC_OFFSET, GBA_ROM_MAGIC[] = { 0xEA }
GBA_ROM_MAGIC_OFFSET == 3
GBA_ROM_MAGIC == 234
\* uint8_t interruptTable[7 * 4]: seven vectors of four bytes
BiosVectors == 7
VectorBytes == 4

\* vf->seek then vf->read of n bytes at offset pos: the bytes the source has
VfRead(image, pos, n) ==
    IF pos >= Len(image) THEN << >>
    ELSE SubSeq(image, pos + 1, IF pos + n > Len(image) THEN Len(image) ELSE pos + n)

GBAIsBIOS(image) ==
    LET interruptTable == VfRead(image, 0, BiosVectors * VectorBytes)
    IN  IF Len(interruptTable) # BiosVectors * VectorBytes THEN FALSE
        ELSE \A i \in 0..(BiosVectors - 1) :
                ~ (interruptTable[VectorBytes * i + 3 + 1] # GBA_ROM_MAGIC
                   \/ interruptTable[VectorBytes * i + 2 + 1] # 0)

\* variant: the image is not checked for being a BIOS
GBAIsROM_noBiosCheck(image) ==
    LET signature == VfRead(image, GBA_ROM_MAGIC_OFFSET, 1)
    IN  IF Len(signature) # 1 THEN FALSE
        ELSE signature[1] = GBA_ROM_MAGIC

GBAIsROM(image) ==
    LET signature == VfRead(image, GBA_ROM_MAGIC_OFFSET, 1)
    IN  IF Len(signature) # 1 THEN FALSE
        ELSE IF GBAIsBIOS(image) THEN FALSE
        ELSE signature[1] = GBA_ROM_MAGIC

\* what a vector of an image holds in its bytes 2 and 3: a branch with a
\* short offset (0x00, 0xEA), a branch whose byte 2 is set (0x01, 0xEA), or
\* something else (0x00, 0x00)
VectorKinds == {"branch", "far", "data"}
ImageOf(kinds) ==
    [k \in 1..(BiosVectors * VectorBytes) |->
        LET off == (k - 1) % VectorBytes
            kind == kinds[(k - 1) \div VectorBytes]
        IN  IF off = 3 THEN (IF kind = "data" THEN 0 ELSE GBA_ROM_MAGIC)
            ELSE IF off = 2 THEN (IF kind = "far" THEN 1 ELSE 0)
            ELSE 0]
\* lengths of the sources probed: empty, too short for the ROM magic, too
\* short for the vector table, one byte short of it, and a whole table
ImageLengths == {0, GBA_ROM_MAGIC_OFFSET, VectorBytes,
                 BiosVectors * VectorBytes - 1, BiosVectors * VectorBytes}

\* a front end probes a source with both checks, once
Probe ==
    /\ lastOp.op # "Probe"
    /\ \E kinds \in [0..(BiosVectors - 1) -> VectorKinds], len \in ImageLengths :
         LET image == SubSeq(ImageOf(kinds), 1, len)
         IN  /\ probe' = [image |-> image, isROM |-> GBAIsROM(image),
                          isBIOS |-> GBAIsBIOS(image)]
             /\ lastOp' = [op |-> "Probe", ok |-> TRUE]
             /\ UNCHANGED << MainVars, BpVars >>

NextSig == Probe

----------------------------------------------------------------------------
\* Initial state: after GBACreate and GBAInit, before any source is loaded

Init ==
    /\ rom = NULL /\ pristineRom = NULL /\ pristineRomSize = 0
    /\ romSize = 0 /\ romMask = 0 /\ yankedRomSize = 0
    /\ romVf = NULL /\ biosVf = NULL
    /\ bios = HleBios /\ fullBios = 0 /\ biosChecksum = HleBios
    /\ REG_IE = {} /\ REG_IF = {} /\ REG_IME = 0 /\ springIRQ = {}
    /\ halted = FALSE /\ cpsrI = FALSE /\ cpuBlocked = FALSE
    /\ cycles = 0 /\ nextEvent = 0
    /\ timeline = << >>
    /\ pc = "cpu" /\ lCycles = 0 /\ lNextEvent = 0
    /\ nextFile = 0 /\ nextAnon = 0 /\ produced = {}
    /\ relCount = [b \in Buffers |-> 0] /\ wrongRel = {}
    /\ closeCount = [f \in Files |-> 0] /\ destroyed = FALSE
    /\ mem = [i \in HalfIndex |-> 0]
    /\ components = [i \in 0..(CPU_COMPONENT_MAX - 1) |->
                       IF i = CPU_COMPONENT_CHEAT_DEVICE THEN "cheats" ELSE NoComponent]
    /\ breakpoints = {} /\ cleared = NoBreakpoint
    /\ haltPending = FALSE /\ idleLoop = IDLE_LOOP_NONE
    /\ idleDetectionStep = 0 /\ idleDetectionFailures = 0
    /\ probe = NoProbe /\ preBios = NoBios /\ firstYank = NoYank
    /\ preReset = NoReset
    /\ lastOp = [op |-> "Init", ok |-> TRUE] /\ prevOp = "-"
    /\ irqCalls = 0 /\ ret = TRUE
    /\ pre = NoFields /\ yankPre = NoFields /\ preIrq = NoIrq /\ opArg = {}
    /\ elapsed = 0 /\ firstTick = NoTick /\ extraTicks = 0 /\ sawBlocked = FALSE /\ fastForwarded = FALSE

\* An operation called between two scheduler steps: the state becomes n.
\* Observed with it: the operation, its argument (the interrupt raised, the
\* mask written) and its result; for a patch, the ROM fields it found; for a
\* yank, the ROM fields it found, kept over the reset that follows it; for a
\* reset or a master-enable write, the operation before it; for an operation
\* of the interrupt controller, the registers it found.  What the last
\* scheduler step was seen to do is forgotten.
CallArg(name, arg, n) ==
    /\ pc = "cpu" /\ ~destroyed
    /\ Becomes(n)
    /\ lastOp' = [op |-> name, ok |-> n.ret]
    /\ opArg' = arg
    /\ prevOp' = IF name \in {"Reset", "WriteIME"} THEN lastOp.op ELSE "-"
    /\ pre' = IF name = "ApplyPatch" THEN RomFields(S) ELSE NoFields
    /\ yankPre' = IF name = "YankROM" THEN RomFields(S)
                  ELSE IF name = "Reset" /\ lastOp.op = "YankROM" THEN yankPre
                  ELSE NoFields
    /\ preIrq' = IF name \in {"RaiseIRQ", "WriteIE", "WriteIME"}
                 THEN IrqFields(S) ELSE NoIrq
    /\ preBios' = IF name = "LoadBIOS" THEN BiosFields(S) ELSE NoBios
    /\ preReset' = IF name = "Reset" THEN ResetFields(S) ELSE NoReset
    /\ firstYank' = IF name = "YankROM"
                    THEN IF lastOp.op = "YankROM"
                         THEN [firstYank EXCEPT !.repeated = TRUE]
                         ELSE [romSize |-> romSize, repeated |-> FALSE]
                    ELSE IF name = "Reset" /\ lastOp.op = "YankROM" THEN firstYank
                    ELSE NoYank
    /\ UNCHANGED << BpVars, SigVars >>
    /\ pc' = pc /\ lCycles' = 0 /\ lNextEvent' = 0
    /\ elapsed' = 0 /\ firstTick' = NoTick /\ extraTicks' = 0
    /\ sawBlocked' = FALSE /\ fastForwarded' = FALSE

Call(name, n) == CallArg(name, {}, n)

----------------------------------------------------------------------------
\* Lifecycle operations

LoadROM ==
    \/ Call("LoadROM", GBALoadROM(S, NULL, 0, FALSE))
    \/ \E size \in FileSizes, ok \in BOOLEAN :
          /\ nextFile < MaxFiles
          /\ Call("LoadROM", GBALoadROM(S, nextFile + 1, size, ok))

LoadMB ==
    \E size \in FileSizes, ok \in BOOLEAN :
        /\ nextFile < MaxFiles
        /\ Call("LoadMB", GBALoadMB(S, nextFile + 1, size, ok))

UnloadROM == Call("UnloadROM", GBAUnloadROM(S))

ApplyPatch ==
    \E patchedSize \in PatchSizes, ok \in BOOLEAN :
        /\ nextAnon < MaxPatches
        /\ pristineRom # NULL
        /\ Call("ApplyPatch", GBAApplyPatch(S, patchedSize, ok))

YankROM == Call("YankROM", GBAYankROM(S))

Reset == Call("Reset", GBAReset(S))

LoadBIOS ==
    \E ok \in BOOLEAN :
        /\ nextFile < MaxFiles
        /\ Call("LoadBIOS", GBALoadBIOS(S, nextFile + 1, ok))

\* the idle-loop detection or a game override classifies the idle loop of
\* the loaded game
ClassifyIdleLoop ==
    /\ rom # NULL /\ idleLoop = IDLE_LOOP_NONE
    /\ Call("ClassifyIdleLoop", [S EXCEPT !.idleLoop = "found"])

Destroy == Call("Destroy", GBADestroy(S))

----------------------------------------------------------------------------
\* The CPU between two scheduler steps (checked under SpecIrq)

\* cycles the CPU can have consumed when it enters the scheduler step
MaxCycles == 2
\* the furthest an event is scheduled ahead
MaxWhen == 2
\* transfer units of a DMA
MaxDmaUnits == 1

\* what GBASIOProcessEvents can report as the serial I/O's next event
SioEvents == {0, 1, INT_MAX}

Pending(kind) == \E i \in DOMAIN timeline : timeline[i].kind = kind

\* the CPU executes instructions
Execute ==
    \E c \in 1..MaxCycles :
        /\ ~halted /\ cycles <= MaxCycles - c
        /\ Call("Cpu", [S EXCEPT !.cycles = @ + c])

\* the CPU sets or clears the interrupt-disable flag of its status register
SetCpsrI == \E b \in BOOLEAN : b # cpsrI /\ Call("Cpu", [S EXCEPT !.cpsrI = b])

RaiseIRQ == \E irq \in IRQs : CallArg("RaiseIRQ", {irq}, GBARaiseIRQ(S, irq))

WriteIE ==
    \E value \in SUBSET IRQs : CallArg("WriteIE", value, GBAIOWrite_IE(S, value))

WriteIME == \E value \in {0, 1} : Call("WriteIME", GBAIOWrite_IME(S, value))

TestIRQ == Call("TestIRQ", GBATestIRQ(S))

Halt == ~halted /\ Call("Cpu", GBAHalt(S))

\* an I/O write starts a timer
StartTimer ==
    \E when \in 1..MaxWhen :
        /\ ~Pending("timer") /\ cycles <= MaxCycles
        /\ Call("Cpu", mTimingSchedule(S, "timer", 0, when))

\* idle-detection steps and failures counted in the model
MaxIdle == 1

\* a write to the halt-control register asks for a halt
RequestHalt ==
    ~haltPending /\ Call("Cpu", [S EXCEPT !.haltPending = TRUE])

\* the idle-loop detection of the memory bus takes a step, or counts a failure
IdleDetect ==
    \/ idleDetectionStep < MaxIdle
          /\ Call("Cpu", [S EXCEPT !.idleDetectionStep = @ + 1])
    \/ idleDetectionFailures < MaxIdle
          /\ Call("Cpu", [S EXCEPT !.idleDetectionFailures = @ + 1])

\* an I/O write starts a DMA transfer
StartDMA ==
    \E when \in 1..MaxWhen, units \in 0..MaxDmaUnits :
        /\ ~Pending("dma") /\ cycles <= MaxCycles
        /\ Call("Cpu", mTimingSchedule(S, "dma", units, when))

----------------------------------------------------------------------------
\* GBAProcessEvents, one action per stretch between two loop heads


InStep == [S EXCEPT !.irqCalls = irqCalls]

\* variant: the deferred interrupt is delivered whatever the CPU's
\* interrupt-disable flag
ProcessEventsEntry_ignoresFlag(g) ==
    IF g.springIRQ # {}
    THEN [ARMRaiseIRQ(g) EXCEPT !.springIRQ = {}]
    ELSE g

\* entry: the deferred interrupt is delivered once the CPU accepts interrupts
ProcessEventsEntry(g) ==
    IF g.springIRQ # {} /\ ~g.cpsrI
    THEN [ARMRaiseIRQ(g) EXCEPT !.springIRQ = {}]
    ELSE g

PE_Enter ==
    /\ pc = "cpu" /\ ~destroyed
    /\ Becomes(ProcessEventsEntry(S))
    /\ pc' = "outer"
    /\ lastOp' = [op |-> "ProcessEvents", ok |-> TRUE] /\ prevOp' = "-"
    /\ opArg' = {}
    /\ pre' = NoFields /\ yankPre' = NoFields /\ preIrq' = NoIrq
    /\ preBios' = NoBios /\ firstYank' = NoYank /\ preReset' = NoReset
    /\ elapsed' = cycles /\ firstTick' = NoTick /\ extraTicks' = 0
    /\ sawBlocked' = FALSE /\ fastForwarded' = FALSE
    /\ UNCHANGED << lCycles, lNextEvent, BpVars, SigVars >>

Observed == << lastOp, prevOp, opArg, pre, yankPre, preIrq, elapsed, preBios, firstYank,
              preReset,
              SigVars >>

\* variant: the consumed cycles are read after the counter has been reset
OuterLoopHead_readsAfterReset(g) ==
    [g |-> [g EXCEPT !.cycles = 0, !.nextEvent = INT_MAX],
     cycles |-> 0, nextEvent |-> 0]

\* head of the outer loop: the consumed cycles are taken as the first tick,
\* the counter and the cursor are reset
OuterLoopHead(g) ==
    [g |-> [g EXCEPT !.cycles = 0, !.nextEvent = INT_MAX],
     cycles |-> g.cycles, nextEvent |-> g.cycles]

PE_Outer ==
    /\ pc = "outer"
    /\ LET r == OuterLoopHead(InStep)
       IN  Becomes(r.g) /\ lCycles' = r.cycles /\ lNextEvent' = r.nextEvent
    /\ pc' = "tick"
    /\ UNCHANGED << Observed, BpVars, firstTick, extraTicks, sawBlocked, fastForwarded >>

\* variant: the inner loop ticks once whatever the components report
InnerLoopAgain_once(g) == FALSE

\* the inner loop goes round again while a component blocks the CPU
InnerLoopAgain(g) == g.cpuBlocked

\* the inner loop: one tick of the timeline
PE_Tick ==
    /\ pc = "tick"
    /\ LET n == mTimingTick(InStep, lNextEvent)
       IN  /\ Becomes(n)
           /\ lNextEvent' = n.nextEvent
           /\ pc' = IF InnerLoopAgain(n) THEN "tick" ELSE "sio"
           /\ sawBlocked' = (sawBlocked \/ n.cpuBlocked)
    /\ firstTick' = IF firstTick = NoTick THEN lNextEvent ELSE firstTick
    /\ extraTicks' = IF firstTick = NoTick THEN 0 ELSE Sat(extraTicks, lNextEvent)
    /\ UNCHANGED << Observed, BpVars, lCycles, fastForwarded >>

\* variant: a halted CPU leaves the step only when both the master enable
\* and the enable mask are zero
ProcessEventsTail_bothZero(g, nextEv, testEvent) ==
    LET ne == IF testEvent < nextEv THEN testEvent ELSE nextEv
        g1 == [g EXCEPT !.nextEvent = ne]
    IN  IF ne = 0 THEN [g |-> g1, again |-> FALSE]
        ELSE IF g1.halted
        THEN LET g2 == [g1 EXCEPT !.cycles = ne]
             IN  IF g2.REG_IME = 0 /\ g2.REG_IE = {}
                 THEN [g |-> g2, again |-> FALSE]
                 ELSE [g |-> g2, again |-> (g2.cycles >= ne)]
        ELSE [g |-> g1, again |-> (g1.cycles >= ne)]

\* variant: the outer loop goes round again only when the consumed cycles
\* have passed the next event
ProcessEventsTail_strictLoop(g, nextEv, testEvent) ==
    LET ne == IF testEvent < nextEv THEN testEvent ELSE nextEv
        g1 == [g EXCEPT !.nextEvent = ne]
    IN  IF ne = 0 THEN [g |-> g1, again |-> FALSE]
        ELSE IF g1.halted
        THEN LET g2 == [g1 EXCEPT !.cycles = ne]
             IN  IF g2.REG_IME = 0 \/ g2.REG_IE = {}
                 THEN [g |-> g2, again |-> FALSE]
                 ELSE [g |-> g2, again |-> (g2.cycles > ne)]
        ELSE [g |-> g1, again |-> (g1.cycles > ne)]

\* after the inner loop, with testEvent what GBASIOProcessEvents returned:
\* the state, and whether the outer loop goes round again
ProcessEventsTail(g, nextEv, testEvent) ==
    LET ne == IF testEvent < nextEv THEN testEvent ELSE nextEv
        g1 == [g EXCEPT !.nextEvent = ne]
    IN  IF ne = 0 THEN [g |-> g1, again |-> FALSE]
        ELSE IF g1.halted
        THEN LET g2 == [g1 EXCEPT !.cycles = ne]
             IN  IF g2.REG_IME = 0 \/ g2.REG_IE = {}
                 THEN [g |-> g2, again |-> FALSE]
                 ELSE [g |-> g2, again |-> (g2.cycles >= ne)]
        ELSE [g |-> g1, again |-> (g1.cycles >= ne)]

PE_Tail ==
    /\ pc = "sio"
    /\ \E testEvent \in SioEvents :
         LET r == ProcessEventsTail(InStep, lNextEvent, testEvent)
         IN  /\ Becomes(r.g)
             /\ pc' = IF r.again THEN "outer" ELSE "cpu"
             /\ fastForwarded' = (fastForwarded \/ r.again)
             /\ lNextEvent' = IF r.again THEN r.g.nextEvent ELSE 0
             /\ lCycles' = IF r.again THEN lCycles ELSE 0
    /\ UNCHANGED << Observed, BpVars, firstTick, extraTicks, sawBlocked >>

\* the interrupt controller driven by the CPU, a peripheral and the cartridge
NextIrq ==
    \/ RaiseIRQ \/ WriteIE \/ WriteIME \/ TestIRQ \/ SetCpsrI \/ Halt
    \/ YankROM \/ Reset
    \/ PE_Enter \/ PE_Outer \/ PE_Tick \/ PE_Tail

SpecIrq == Init /\ [][NextIrq]_vars

\* the scheduler step driven by the CPU, timers and DMA transfers
NextSched ==
    \/ Execute \/ Halt \/ WriteIE \/ WriteIME \/ StartTimer \/ StartDMA \/ Reset
    \/ PE_Enter \/ PE_Outer \/ PE_Tick \/ PE_Tail

SpecSched == Init /\ [][NextSched]_vars

----------------------------------------------------------------------------
NextRom ==
    \/ ClassifyIdleLoop
    \/ LoadROM \/ LoadMB \/ UnloadROM \/ ApplyPatch
    \/ YankROM \/ Reset \/ LoadBIOS \/ Destroy

SpecRom == Init /\ [][NextRom]_vars

----------------------------------------------------------------------------
\* Claims about the ROM and BIOS lifecycle (checked under SpecRom)

Succeeded(name) == lastOp.op = name /\ lastOp.ok
Failed(name) == lastOp.op = name /\ ~lastOp.ok

\* C1 as stated: right after a successful GBALoadROM or GBAApplyPatch romMask
\* is nextPowerOfTwo(romSize) - 1, and romMask is 0 whenever romSize is 0.
C1_MaskDerivedAfterLoadOrPatch ==
    /\ (Succeeded("LoadROM") \/ Succeeded("ApplyPatch"))
           => romMask = toPow2(romSize) - 1
    /\ romSize = 0 => romMask = 0

\* C1 amended: right after a successful GBALoadROM romMask is
\* nextPowerOfTwo(romSize) - 1; right after a successful GBAApplyPatch romSize
\* is the patched size (1..SIZE_CART0) and romMask is the full-capacity mask
\* SIZE_CART0 - 1, which is the size-derived mask only for a patched size
\* above half the capacity; and romMask is 0 whenever romSize is 0.
C1_MaskAfterLoadOrPatch ==
    /\ Succeeded("LoadROM") => romMask = toPow2(romSize) - 1
    /\ Succeeded("ApplyPatch") =>
           /\ romSize \in 1..SIZE_CART0
           /\ romMask = SIZE_CART0 - 1
           /\ (romMask = toPow2(romSize) - 1) <=> (2 * romSize > SIZE_CART0)
    /\ romSize = 0 => romMask = 0

\* a patch was applied whose size is far below the capacity
C1_Witness ==
    /\ Succeeded("ApplyPatch") /\ romSize = 5 /\ romMask = SIZE_CART0 - 1
    /\ rom \in AnonBufs

\* C4: a yank directly followed by a reset gives back the romSize the yank
\* found, and leaves the yanked-size slot empty.
C4_YankResetRoundTrip ==
    (lastOp.op = "Reset" /\ prevOp = "YankROM") =>
        /\ romSize = yankPre.romSize
        /\ yankedRomSize = 0

\* a loaded ROM of non-zero size was yanked and reset
C4_Witness ==
    /\ lastOp.op = "Reset" /\ prevOp = "YankROM"
    /\ rom # NULL /\ yankPre.romSize > 0 /\ romSize = yankPre.romSize

\* C5: when GBAApplyPatch fails, the active ROM pointer, romSize and romMask
\* are what they were before the call.
C5_FailedPatchChangesNothing ==
    Failed("ApplyPatch") => RomFields(S) = pre

\* C9: between operations either no ROM is mapped and romSize and romMask are
\* zero, or a ROM is mapped and romMask is nextPowerOfTwo(romSize) - 1.
C9_MappedOrZero ==
    (pc = "cpu" /\ ~destroyed) =>
        \/ rom = NULL /\ romSize = 0 /\ romMask = 0
        \/ rom # NULL /\ romMask = toPow2(romSize) - 1

\* C9, its last sentence: between operations romSize and romMask are zero
\* whenever no ROM is mapped, e.g. after unload or a failed load.
C9_UnmappedIsZero ==
    (pc = "cpu" /\ ~destroyed /\ rom = NULL) => (romSize = 0 /\ romMask = 0)

\* C10: after destroy every buffer the platform was given or allocated has
\* been released exactly once, through the source that produced it, and every
\* source handle it was given has been closed.
C10_DestroyReleasesAll ==
    destroyed =>
        /\ \A b \in produced : relCount[b] = 1 /\ b \notin wrongRel
        /\ wrongRel = {}
        /\ \A f \in 1..nextFile : closeCount[f] = 1

----------------------------------------------------------------------------
\* Claims about the interrupt controller (checked under SpecIrq)

\* Master-Enable, the Enable bit and the Flag bit of irq are all set
Triple(r, irq) == r.REG_IME # 0 /\ irq \in r.REG_IE /\ irq \in r.REG_IF

CompletedTriple(irq) ==
    /\ lastOp.op \in {"RaiseIRQ", "WriteIE", "WriteIME"}
    /\ Triple(IrqFields(S), irq) /\ ~Triple(preIrq, irq)

\* C2: whichever of raise, writeEnable and writeMasterEnable completes the
\* triple Master-Enable, Enable bit, Flag bit of an interrupt, that operation
\* calls ARMRaiseIRQ.
C2_DeliveryNoLaterThanTriple ==
    \A irq \in IRQs : CompletedTriple(irq) => irqCalls >= 1

\* the enable write came last and delivered
C2_Witness ==
    /\ lastOp.op = "WriteIE" /\ CompletedTriple(IRQ_TIMER0) /\ irqCalls = 1
    /\ preIrq.REG_IME # 0 /\ IRQ_TIMER0 \in preIrq.REG_IF

\* C6: raise(irq) sets the Flag bit; with the Enable bit set it unhalts the
\* CPU whatever Master-Enable is and calls ARMRaiseIRQ exactly once iff
\* Master-Enable is non-zero; with the Enable bit clear it neither unhalts
\* nor delivers.  A non-zero write to Master-Enable while an enabled
\* interrupt is flagged delivers exactly once.
C6_RaiseUnhaltsAndDelivers ==
    /\ lastOp.op = "RaiseIRQ" =>
         \A irq \in opArg :
            /\ irq \in REG_IF
            /\ irq \in preIrq.REG_IE =>
                 ~halted /\ irqCalls = (IF preIrq.REG_IME # 0 THEN 1 ELSE 0)
            /\ irq \notin preIrq.REG_IE =>
                 halted = preIrq.halted /\ irqCalls = 0
    /\ (lastOp.op = "WriteIME" /\ REG_IME # 0
          /\ (preIrq.REG_IE \cap preIrq.REG_IF) # {}) => irqCalls = 1

\* an interrupt was raised with its Enable bit set and Master-Enable 0, and the
\* write of 1 to Master-Enable that followed delivered it
C6_Witness ==
    /\ lastOp.op = "WriteIME" /\ prevOp = "RaiseIRQ"
    /\ preIrq.REG_IME = 0 /\ REG_IME = 1
    /\ IRQ_TIMER0 \in (preIrq.REG_IE \cap preIrq.REG_IF)
    /\ ~halted /\ irqCalls = 1

----------------------------------------------------------------------------
\* Claims about the scheduler step (checked under SpecSched)

\* GBAProcessEvents has just returned
Returned == pc = "cpu" /\ lastOp.op = "ProcessEvents"

\* C3 as stated: a step entered with elapsed cycles advances the timeline by
\* exactly elapsed, and leaves a next-event distance that is not negative.
C3_ConsumesExactlyElapsed ==
    Returned => firstTick = elapsed /\ extraTicks = 0 /\ nextEvent >= 0

\* C3 amended: the first tick of a step advances the timeline by exactly
\* elapsed, so the step consumes at least elapsed cycles; it consumes exactly
\* elapsed iff no tick left the CPU blocked and the halted CPU was not
\* fast-forwarded into another pass; the next-event distance on return is
\* not negative.
C3_ConsumesAtLeastElapsed ==
    Returned =>
        /\ firstTick = elapsed
        /\ (extraTicks = 0) <=> (~sawBlocked /\ ~fastForwarded)
        /\ nextEvent >= 0

\* a step that was entered with cycles consumed and had to tick again
C3_Witness ==
    Returned /\ elapsed > 0 /\ firstTick = elapsed /\ extraTicks > 0 /\ sawBlocked

\* C7: GBAProcessEvents never returns while the CPU is blocked.
C7_NeverReturnsBlocked == Returned => ~cpuBlocked

\* a step in which a DMA blocked the CPU, and which returned after it
C7_Witness == Returned /\ sawBlocked /\ ~cpuBlocked

\* the model's timeline: a blocked CPU has a DMA event pending
BlockedHasDma == cpuBlocked => Pending("dma")

----------------------------------------------------------------------------
\* Claims about the breakpoint patcher (checked under SpecBp)

SpecBp == Init /\ [][NextBp]_vars

\* C8: clearing a breakpoint with the opcode its set handed back leaves at
\* its address, in its width, what the memory held before the set.
C8_BreakpointRoundTrip ==
    lastOp.op = "ClearBreakpoint" =>
        Load(mem, cleared.address, cleared.mode) = cleared.before

\* a Thumb breakpoint over a halfword with the sign bit set was cleared
C8_Witness ==
    /\ lastOp.op = "ClearBreakpoint" /\ cleared.mode = "THUMB"
    /\ cleared.before.lo >= 32768
    /\ Load(mem, cleared.address, cleared.mode) = cleared.before

----------------------------------------------------------------------------
\* Claims about the BIOS (checked under SpecRom)

\* C11: when GBALoadBIOS fails to map its source while a BIOS loaded earlier
\* is in place, the BIOS buffer, its checksum, the full-BIOS flag and the
\* backing source of that buffer are what they were before the call.
C11_FailedBiosLoadKeepsPrior ==
    (Failed("LoadBIOS") /\ preBios.biosVf # NULL /\ preBios.bios = preBios.biosVf)
        => BiosFields(S) = preBios

----------------------------------------------------------------------------
\* Claims about the signature checks (checked under SpecSig)

SpecSig == Init /\ [][NextSig]_vars

\* C12: an image GBAIsBIOS accepts is never accepted by GBAIsROM, although
\* its byte at offset 3 is the ROM magic.
C12_BiosIsNotRom == probe.isBIOS => ~probe.isROM

\* a BIOS image, whose byte at offset 3 is the ROM magic, was probed
C12_Witness ==
    /\ lastOp.op = "Probe" /\ probe.isBIOS /\ ~probe.isROM
    /\ probe.image[GBA_ROM_MAGIC_OFFSET + 1] = GBA_ROM_MAGIC

----------------------------------------------------------------------------
\* Claims about the halted CPU in the scheduler step (checked under SpecSched)

\* C13 as stated: a step that finds the CPU halted with a non-zero
\* next-event distance has fast-forwarded cpu->cycles to it, unless the
\* master enable and the enable mask are both zero: then it returns with
\* cpu->cycles not advanced.
C13_NoFastForwardInDeadEnd ==
    (Returned /\ halted /\ nextEvent # 0) =>
        IF REG_IME = 0 /\ REG_IE = {} THEN cycles = 0 ELSE cycles = nextEvent

\* C13 amended: a step that finds the CPU halted with a non-zero next-event
\* distance sets cpu->cycles to it in every case; it then returns if the
\* master enable or the enable mask is zero, and goes round the outer loop
\* again otherwise.
C13_HaltedFastForward ==
    /\ (Returned /\ halted /\ nextEvent # 0) =>
          (cycles = nextEvent /\ (REG_IME = 0 \/ REG_IE = {}))
    /\ (pc = "outer" /\ fastForwarded /\ halted) =>
          (cycles = nextEvent /\ nextEvent # 0 /\ REG_IME # 0 /\ REG_IE # {})

\* a step returned from the dead end with cpu->cycles fast-forwarded
C13_Witness ==
    /\ Returned /\ halted /\ nextEvent # 0
    /\ REG_IME = 0 /\ REG_IE = {} /\ cycles = nextEvent

----------------------------------------------------------------------------
\* Claims about the deferred interrupt (checked under SpecIrq)

\* C14: GBATestIRQ delivers nothing itself; with the master enable and a
\* pending enabled interrupt it latches the pending bits in springIRQ and
\* sets cpu->nextEvent to cpu->cycles, otherwise it changes neither.  The
\* latch is touched by nothing else until a scheduler step begins: that step
\* delivers once and clears the latch if the CPU's interrupt-disable flag is
\* clear, and keeps the latch and delivers nothing if the flag is set.
C14_SpringDeferred ==
    [][ /\ lastOp'.op = "TestIRQ" =>
              /\ irqCalls' = 0
              /\ IF REG_IME # 0 /\ (REG_IE \cap REG_IF) # {}
                 THEN springIRQ' = REG_IE \cap REG_IF /\ nextEvent' = cycles
                 ELSE springIRQ' = springIRQ /\ nextEvent' = nextEvent
        /\ (pc = "cpu" /\ pc' = "outer") =>
              IF springIRQ # {} /\ ~cpsrI
              THEN irqCalls' = 1 /\ springIRQ' = {}
              ELSE irqCalls' = 0 /\ springIRQ' = springIRQ
        /\ springIRQ' # springIRQ =>
              (lastOp'.op = "TestIRQ" \/ (pc = "cpu" /\ pc' = "outer"))
      ]_vars

\* a step has just delivered the latched interrupt and cleared the latch
C14_Witness ==
    /\ pc = "outer" /\ ~fastForwarded /\ ~cpsrI
    /\ irqCalls = 1 /\ springIRQ = {}

----------------------------------------------------------------------------
\* Termination of the scheduler step (checked under SpecSchedFair)

\* the step runs on once begun: its loop heads, ticks and tails are taken
SpecSchedFair ==
    SpecSched /\ WF_vars(PE_Outer) /\ WF_vars(PE_Tick) /\ WF_vars(PE_Tail)

\* C15: every scheduler step that begins returns.
C15_StepTerminates == (pc # "cpu") ~> (pc = "cpu")

----------------------------------------------------------------------------
\* Further claims about the ROM lifecycle (checked under SpecRom)

\* C16: after GBAUnloadROM, from every state, yankedRomSize is 0 and the
\* idle-loop classification is none.
C16_UnloadClearsTracking ==
    lastOp.op = "UnloadROM" =>
        (yankedRomSize = 0 /\ idleLoop = IDLE_LOOP_NONE)

\* C17: after a yank and the reset that follows it, romMask is what it was
\* immediately before the yank, for every state in which a ROM is mapped.
C17_YankResetRestoresMask ==
    (lastOp.op = "Reset" /\ prevOp = "YankROM" /\ yankPre.rom # NULL)
        => romMask = yankPre.romMask

\* C20: after two or more yanks in a row and the reset that follows them,
\* romSize is what it was before the first of the yanks.
C20_RepeatedYankKeepsSize ==
    (lastOp.op = "Reset" /\ prevOp = "YankROM" /\ firstYank.repeated)
        => romSize = firstYank.romSize

----------------------------------------------------------------------------
\* Claims about the reset (checked under SpecReset)

\* what a running game leaves behind for a reset to discard
NextReset ==
    \/ RaiseIRQ \/ WriteIE \/ WriteIME \/ StartTimer \/ StartDMA
    \/ RequestHalt \/ IdleDetect \/ Reset

SpecReset == Init /\ [][NextReset]_vars

----------------------------------------------------------------------------
\* Further claims about interrupt delivery (checked under SpecIrq)

\* C19: whenever an operation or the entry of a scheduler step has called
\* ARMRaiseIRQ, the master enable is non-zero and some interrupt is both
\* enabled and flagged.
C19_DeliveryOnlyWhenEnabled ==
    irqCalls > 0 => (REG_IME # 0 /\ (REG_IE \cap REG_IF) # {})

----------------------------------------------------------------------------
\* The state GBAProcessEvents returns in (checked under SpecSched)

\* C21: whenever GBAProcessEvents returns, the next-event distance is zero,
\* or the CPU is halted and the master enable or the enable mask is zero, or
\* cpu->cycles is strictly less than cpu->nextEvent; so it never returns
\* with a running CPU whose consumed cycles have reached or passed a non-zero
\* next event.
C21_ReturnCondition ==
    Returned =>
        /\ \/ nextEvent = 0
           \/ halted /\ (REG_IME = 0 \/ REG_IE = {})
           \/ cycles < nextEvent
        /\ (~halted /\ nextEvent # 0) => cycles < nextEvent

\* a step entered with cycles consumed returned to a running CPU that has
\* an event of the timeline ahead of it
C21_Witness ==
    /\ Returned /\ ~halted /\ elapsed > 0
    /\ nextEvent # 0 /\ nextEvent < INT_MAX /\ cycles < nextEvent
    /\ timeline # << >>

\* a step returned because an event is due now
C21_DueNow == Returned /\ nextEvent = 0

\* a step returned with the CPU halted and nothing able to wake it
C21_DeadEnd ==
    Returned /\ halted /\ nextEvent # 0 /\ (REG_IME = 0 \/ REG_IE = {})

----------------------------------------------------------------------------
\* The deferred interrupt over a reset (checked under SpecIrq)

\* C22: a deferred interrupt latched by a status-register read does not
\* survive a reset: GBAReset leaves the latch empty, and the scheduler step
\* that follows the reset delivers no interrupt.
C22_ResetDropsSpring ==
    [][ /\ lastOp'.op = "Reset" => springIRQ' = {}
        /\ (lastOp.op = "Reset" /\ pc = "cpu" /\ pc' = "outer") => irqCalls' = 0
      ]_vars

====
